---- MODULE Spec2Model ----
(***************************************************************************)
(* Model of src/agents/pi-tools.before-tool-call.ts: the tool wrapper that *)
(* routes a tool call through the before_tool_call and                     *)
(* tool_result_received plugin hooks.                                      *)
(*                                                                         *)
(* A wrapped call is an async function; its atomic segments (the code      *)
(* between two awaits) are the actions below.  The hook runner, the tool   *)
(* and the clock are the environment: their answers are drawn with \E.     *)
(***************************************************************************)
EXTENDS Integers, Sequences, FiniteSets, TLC

(* ---------------------------- bounds ---------------------------------- *)
MaxVal == 1      \* property values of caller params are 1..MaxVal
MaxClock == 3    \* Date.now() ranges over 0..MaxClock

(* ------------------------ JavaScript values --------------------------- *)
\* A value is [t, m, a]: t its kind, m its own properties when it is a
\* mapping (0 = key absent), a its text when it is a primitive.
Keys == {"a", "b", "c"}
ParamVals == 1..MaxVal
HookVal == MaxVal + 1
EmptyMap == [k \in Keys |-> 0]

JsUndefined == [t |-> "undefined", m |-> EmptyMap, a |-> ""]
JsNull == [t |-> "null", m |-> EmptyMap, a |-> ""]
JsTrue == [t |-> "boolean", m |-> EmptyMap, a |-> "true"]
JsFalse == [t |-> "boolean", m |-> EmptyMap, a |-> "false"]
JsZero == [t |-> "number", m |-> EmptyMap, a |-> "0"]
JsArray == [t |-> "array", m |-> EmptyMap, a |-> "[1]"]
JsStr(s) == [t |-> "string", m |-> EmptyMap, a |-> s]
JsMap(f) == [t |-> "object", m |-> f, a |-> ""]

\* typeof value
TypeOf(value) == IF value.t \in {"null", "array", "object"} THEN "object" ELSE value.t

\* JavaScript truthiness (ToBoolean)
Truthy(value) ==
    /\ value.t \notin {"undefined", "null"}
    /\ value # JsFalse
    /\ value # JsZero
    /\ value # JsStr("")

isPlainObject(value) == TypeOf(value) = "object" /\ value.t # "null" /\ value.t # "array"

\* { ...p, ...r } on the own properties of two mappings
SpreadOriginalWins(p, r) == JsMap([k \in Keys |-> IF p.m[k] # 0 THEN p.m[k] ELSE r.m[k]])

Spread(p, r) == JsMap([k \in Keys |-> IF r.m[k] # 0 THEN r.m[k] ELSE p.m[k]])

(* --------------------------- hook verdicts ---------------------------- *)
\* hookResult is undefined (defined = FALSE) or an object with optional
\* block, blockReason and params / result fields (absent = JsUndefined).
NoVerdict == [defined |-> FALSE, block |-> JsUndefined, blockReason |-> JsUndefined, data |-> JsUndefined]
Verdict(b, r, d) == [defined |-> TRUE, block |-> b, blockReason |-> r, data |-> d]

\* hookResult?.field
Opt(hookResult, field) == IF hookResult.defined THEN hookResult[field] ELSE JsUndefined

DefaultBeforeReason == "Tool call blocked by plugin hook"
DefaultAfterReason == "Tool result blocked by plugin hook"

\* hookResult.blockReason || fallback
ReasonOrFallbackOnly(hookResult, fallback) == fallback

ReasonOr(hookResult, fallback) ==
    IF Truthy(hookResult.blockReason) THEN hookResult.blockReason.a ELSE fallback

NoReason == ""
Blocked(reason) == [blocked |-> TRUE, reason |-> reason, value |-> JsUndefined]
Allowed(value) == [blocked |-> FALSE, reason |-> NoReason, value |-> value]

\* runBeforeToolCallHook after the runner has answered (lines 46-58, 64)
BeforeOutcomeIgnoreBlock(params, hookResult) ==
    IF Truthy(Opt(hookResult, "data")) /\ isPlainObject(Opt(hookResult, "data"))
    THEN IF isPlainObject(params)
         THEN Allowed(Spread(params, hookResult.data))
         ELSE Allowed(hookResult.data)
    ELSE Allowed(params)

BeforeOutcomeNormalized(params, hookResult) ==
    IF Truthy(Opt(hookResult, "block"))
    THEN Blocked(ReasonOr(hookResult, DefaultBeforeReason))
    ELSE IF Truthy(Opt(hookResult, "data")) /\ isPlainObject(Opt(hookResult, "data"))
         THEN IF isPlainObject(params)
              THEN Allowed(Spread(params, hookResult.data))
              ELSE Allowed(hookResult.data)
         ELSE Allowed(IF isPlainObject(params) THEN params ELSE JsMap(EmptyMap))

BeforeOutcomeMergeOnly(params, hookResult) ==
    IF Truthy(Opt(hookResult, "block"))
    THEN Blocked(ReasonOr(hookResult, DefaultBeforeReason))
    ELSE IF Truthy(Opt(hookResult, "data")) /\ isPlainObject(Opt(hookResult, "data"))
         THEN IF isPlainObject(params)
              THEN Allowed(Spread(params, hookResult.data))
              ELSE Allowed(params)
         ELSE Allowed(params)

BeforeOutcome(params, hookResult) ==
    IF Truthy(Opt(hookResult, "block"))
    THEN Blocked(ReasonOr(hookResult, DefaultBeforeReason))
    ELSE IF Truthy(Opt(hookResult, "data")) /\ isPlainObject(Opt(hookResult, "data"))
         THEN IF isPlainObject(params)
              THEN Allowed(Spread(params, hookResult.data))
              ELSE Allowed(hookResult.data)
         ELSE Allowed(params)

\* normalizedParams (line 33)
NormalizedParamsLeak(params) == params

NormalizedParams(params) == IF isPlainObject(params) THEN params ELSE JsMap(EmptyMap)

\* runToolResultReceivedHook after the runner has answered (lines 96-106, 114)
AfterOutcomeTruthy(result, hookResult) ==
    IF Truthy(Opt(hookResult, "block"))
    THEN [blocked |-> TRUE, reason |-> ReasonOr(hookResult, DefaultAfterReason), value |-> result]
    ELSE IF Truthy(Opt(hookResult, "data"))
         THEN Allowed(hookResult.data)
         ELSE Allowed(result)

AfterOutcomeIgnoreBlock(result, hookResult) ==
    IF Opt(hookResult, "data") # JsUndefined
    THEN Allowed(hookResult.data)
    ELSE Allowed(result)

AfterOutcomeReplacementFirst(result, hookResult) ==
    IF Opt(hookResult, "data") # JsUndefined
    THEN Allowed(hookResult.data)
    ELSE IF Truthy(Opt(hookResult, "block"))
         THEN [blocked |-> TRUE, reason |-> ReasonOr(hookResult, DefaultAfterReason), value |-> result]
         ELSE Allowed(result)

AfterOutcome(result, hookResult) ==
    IF Truthy(Opt(hookResult, "block"))
    THEN [blocked |-> TRUE, reason |-> ReasonOr(hookResult, DefaultAfterReason), value |-> result]
    ELSE IF Opt(hookResult, "data") # JsUndefined
         THEN Allowed(hookResult.data)
         ELSE Allowed(result)

(* ------------------------------ errors -------------------------------- *)
\* A thrown value: who made it and its message.
NoError == [by |-> "none", message |-> ""]
ToolError == [by |-> "tool", message |-> "tool failed"]
HandlerError == [by |-> "handler", message |-> "handler threw"]
RunnerError == [by |-> "runner", message |-> "hasHooks failed"]
\* new Error(reason) (lines 137, 156)
NewError(reason) == [by |-> "wrapper", message |-> reason]

(* ------------------------------ inputs -------------------------------- *)
Events == {"before_tool_call", "tool_result_received"}
ParamMaps == {JsMap(f) : f \in [Keys -> {0} \cup ParamVals]}
HookMaps == {JsMap(f) : f \in [Keys -> {0, HookVal}]}
ParamInputs == ParamMaps \cup {JsStr("raw-string"), JsArray, JsNull}
\* (signal, onUpdate) pairs a caller passes
CallerExtras == {<<"signal-A", "onUpdate-A">>, <<"signal-B", "none">>}
SuppliedReasons == {JsUndefined, JsStr(""), JsStr("denied by policy")}
BeforeVerdicts ==
    {NoVerdict}
    \cup {Verdict(JsUndefined, JsUndefined, d) : d \in HookMaps \cup {JsUndefined, JsNull, JsArray, JsStr("x")}}
    \cup {Verdict(JsFalse, JsUndefined, d) : d \in {JsUndefined, JsMap([k \in Keys |-> HookVal])}}
    \cup {Verdict(JsTrue, r, d) : r \in SuppliedReasons, d \in {JsUndefined, JsMap([k \in Keys |-> HookVal])}}
ToolResults == {JsStr("tool output")}
Replacements == {JsZero, JsFalse, JsStr(""), JsNull, JsStr("redacted")}
AfterVerdicts ==
    {NoVerdict}
    \cup {Verdict(JsUndefined, JsUndefined, d) : d \in Replacements \cup {JsUndefined}}
    \cup {Verdict(JsFalse, JsUndefined, d) : d \in {JsUndefined, JsStr("redacted")}}
    \cup {Verdict(JsTrue, r, d) : r \in SuppliedReasons, d \in {JsUndefined, JsStr("redacted")}}

(* ------------------------------- state -------------------------------- *)
VARIABLES
    calls,    \* calls[c]: the invocation of the wrapped execute with call id c
    clock,    \* Date.now()
    runner,   \* getGlobalHookRunner(): "absent" or "present"
    hooks,    \* the events hasHooks answers true for
    log       \* what log.warn received

vars == <<calls, clock, runner, hooks, log>>

NoAnswer == [kind |-> "none", verdict |-> NoVerdict, error |-> NoError]
NoToolAnswer == [kind |-> "none", value |-> JsUndefined, error |-> NoError, at |-> 0]
NoArgs == [toolCallId |-> "none", params |-> JsUndefined, signal |-> "none", onUpdate |-> "none"]
Pending == [status |-> "pending", value |-> JsUndefined, error |-> NoError]

Idle ==
    [pc |-> "idle", args |-> NoArgs, invokedAt |-> 0,
     hasBefore |-> "unasked", beforeCalls |-> <<>>, beforeAnswer |-> NoAnswer,
     beforeOutcome |-> Allowed(JsUndefined),
     startTime |-> 0, execCalls |-> <<>>, toolAnswer |-> NoToolAnswer, durationMs |-> 0,
     hasAfter |-> "unasked", afterCalls |-> <<>>, afterAnswer |-> NoAnswer,
     afterOutcome |-> Allowed(JsUndefined),
     outcome |-> Pending,
     abortedAt |-> "never"]

RunnerStates == {<<"absent", {}>>} \cup {<<"present", h>> : h \in SUBSET Events}

InitWith(ids) ==
    /\ calls = [c \in ids |-> Idle]
    /\ clock = 0
    /\ \E rs \in RunnerStates : runner = rs[1] /\ hooks = rs[2]
    /\ log = <<>>

Init == InitWith({"call-1"})

\* hookRunner?.hasHooks(event) (lines 26, 76): the answers it can give
HasHooksAnswersAnyEvent(event) ==
    IF runner = "absent" THEN {"absent"}
    ELSE {IF hooks # {} THEN "true" ELSE "false", "threw"}

HasHooksAnswers(event) ==
    IF runner = "absent" THEN {"absent"}
    ELSE {IF event \in hooks THEN "true" ELSE "false", "threw"}

\* the guard of lines 26 and 76: the runner is invoked only on a true answer
RunsHookAlways(answer) == answer \in {"true", "false"}

RunsHook(answer) == answer = "true"

Fail(error) == [status |-> "Fail", value |-> JsUndefined, error |-> error]
Succeed(value) == [status |-> "Succeed", value |-> value, error |-> NoError]

\* the wrapped execute is called (lines 128-135) and runBeforeToolCallHook runs
\* up to its await (lines 25-44)
InvokeFrom(c, paramInputs, callerExtras) ==
    /\ calls[c].pc = "idle"
    /\ \E params \in paramInputs, extras \in callerExtras, answer \in HasHooksAnswers("before_tool_call") :
        LET args == [toolCallId |-> c, params |-> params, signal |-> extras[1], onUpdate |-> extras[2]]
            base == [calls[c] EXCEPT !.args = args, !.invokedAt = clock, !.hasBefore = answer]
        IN calls' = [calls EXCEPT ![c] =
            IF answer = "threw"
            THEN [base EXCEPT !.pc = "Fail", !.outcome = Fail(RunnerError)]
            ELSE IF RunsHook(answer)
            THEN [base EXCEPT !.pc = "BeforeHook",
                              !.beforeCalls = Append(@, [params |-> NormalizedParams(params)])]
            ELSE [base EXCEPT !.pc = "BeforeDone", !.beforeOutcome = Allowed(params)]]
    /\ UNCHANGED <<clock, runner, hooks, log>>

Invoke(c) == InvokeFrom(c, ParamInputs, CallerExtras)

\* log.warn(...) of the catch blocks (lines 60-61, 108-111)
Warning(event, c, error) == [event |-> event, toolCallId |-> c, error |-> error.message]

\* the catch block of runBeforeToolCallHook and the return after it
\* (lines 59-64): the failure is swallowed, the original params are allowed
BeforeFailureRethrown(call, error) ==
    [call EXCEPT !.pc = "Fail", !.outcome = Fail(error),
                 !.beforeAnswer = [kind |-> "threw", verdict |-> NoVerdict, error |-> error]]

BeforeFailure(call, error) ==
    [call EXCEPT !.pc = "BeforeDone", !.beforeOutcome = Allowed(call.args.params),
                 !.beforeAnswer = [kind |-> "threw", verdict |-> NoVerdict, error |-> error]]

\* runBeforeToolCall resolves with a verdict (lines 34-58, 64)
BeforeHookReturnsShared(c, verdicts) ==
    /\ calls[c].pc = "BeforeHook"
    /\ \E hookResult \in verdicts :
        calls' = [d \in DOMAIN calls |->
            IF d = c
            THEN [calls[c] EXCEPT !.pc = "BeforeDone",
                      !.beforeAnswer = [kind |-> "returned", verdict |-> hookResult, error |-> NoError],
                      !.beforeOutcome = BeforeOutcome(calls[c].args.params, hookResult)]
            ELSE IF calls[d].pc = "BeforeDone"
            THEN [calls[d] EXCEPT !.beforeOutcome = BeforeOutcome(calls[c].args.params, hookResult)]
            ELSE calls[d]]
    /\ UNCHANGED <<clock, runner, hooks, log>>

BeforeHookReturnsFrom(c, verdicts) ==
    /\ calls[c].pc = "BeforeHook"
    /\ \E hookResult \in verdicts :
        calls' = [calls EXCEPT ![c] =
            [calls[c] EXCEPT !.pc = "BeforeDone",
                      !.beforeAnswer = [kind |-> "returned", verdict |-> hookResult, error |-> NoError],
                      !.beforeOutcome = BeforeOutcome(calls[c].args.params, hookResult)]]
    /\ UNCHANGED <<clock, runner, hooks, log>>

BeforeHookReturns(c) == BeforeHookReturnsFrom(c, BeforeVerdicts)

\* runBeforeToolCall throws or rejects (lines 59-64)
BeforeHookThrows(c) ==
    /\ calls[c].pc = "BeforeHook"
    /\ calls' = [calls EXCEPT ![c] = BeforeFailure(calls[c], HandlerError)]
    /\ log' = Append(log, Warning("before_tool_call", c, HandlerError))
    /\ UNCHANGED <<clock, runner, hooks>>

\* const startTime = Date.now() (line 141)
StartTimeAtInvoke(call, now) == call.invokedAt

StartTime(call, now) == now

\* the arguments of execute(toolCallId, beforeOutcome.params, signal, onUpdate) (line 142)
ExecuteArgs(call) == [call.args EXCEPT !.params = call.beforeOutcome.value]

\* the wrapper resumes after the before stage (lines 136-142)
CallExecuteHonorsAbort(c) ==
    /\ calls[c].pc = "BeforeDone"
    /\ calls' = [calls EXCEPT ![c] =
        IF calls[c].beforeOutcome.blocked \/ calls[c].abortedAt # "never"
        THEN [calls[c] EXCEPT !.pc = "Fail", !.outcome = Fail(NewError(calls[c].beforeOutcome.reason))]
        ELSE [calls[c] EXCEPT !.pc = "Executing",
                       !.startTime = StartTime(calls[c], clock),
                       !.execCalls = Append(@, [args |-> ExecuteArgs(calls[c]), at |-> clock])]]
    /\ UNCHANGED <<clock, runner, hooks, log>>

CallExecute(c) ==
    /\ calls[c].pc = "BeforeDone"
    /\ calls' = [calls EXCEPT ![c] =
        IF calls[c].beforeOutcome.blocked
        THEN [calls[c] EXCEPT !.pc = "Fail", !.outcome = Fail(NewError(calls[c].beforeOutcome.reason))]
        ELSE [calls[c] EXCEPT !.pc = "Executing",
                       !.startTime = StartTime(calls[c], clock),
                       !.execCalls = Append(@, [args |-> ExecuteArgs(calls[c]), at |-> clock])]]
    /\ UNCHANGED <<clock, runner, hooks, log>>

\* the payload of runToolResultReceived (lines 83-88)
AfterPayloadOriginalParams(call, result, durationMs) ==
    [params |-> call.args.params, result |-> result, durationMs |-> durationMs]

AfterPayload(call, result, durationMs) ==
    [params |-> call.beforeOutcome.value, result |-> result, durationMs |-> durationMs]

\* the underlying execute resolves; the wrapper measures the duration and
\* runToolResultReceivedHook runs up to its await (lines 142-154, 75-94)
ExecuteResolves(c) ==
    /\ calls[c].pc = "Executing"
    /\ \E result \in ToolResults, answer \in HasHooksAnswers("tool_result_received") :
        LET durationMs == clock - calls[c].startTime
            base == [calls[c] EXCEPT
                        !.toolAnswer = [kind |-> "resolved", value |-> result, error |-> NoError, at |-> clock],
                        !.durationMs = durationMs,
                        !.hasAfter = answer]
        IN calls' = [calls EXCEPT ![c] =
            IF answer = "threw"
            THEN [base EXCEPT !.pc = "Fail", !.outcome = Fail(RunnerError)]
            ELSE IF RunsHook(answer)
            THEN [base EXCEPT !.pc = "AfterHook",
                              !.afterCalls = Append(@, AfterPayload(calls[c], result, durationMs))]
            ELSE [base EXCEPT !.pc = "AfterDone", !.afterOutcome = Allowed(result)]]
    /\ UNCHANGED <<clock, runner, hooks, log>>

\* a rejection of the awaited execute leaves the wrapper as it is (line 142)
RejectionWrapped(error) == NewError(error.message)

Rejection(error) == error

\* the underlying execute rejects (line 142: no try around the await)
ExecuteRejectsRetry(c) ==
    /\ calls[c].pc = "Executing"
    /\ calls' = [calls EXCEPT ![c] =
        [calls[c] EXCEPT !.pc = "BeforeDone",
                  !.toolAnswer = [kind |-> "rejected", value |-> JsUndefined, error |-> ToolError, at |-> clock]]]
    /\ UNCHANGED <<clock, runner, hooks, log>>

ExecuteRejects(c) ==
    /\ calls[c].pc = "Executing"
    /\ calls' = [calls EXCEPT ![c] =
        [calls[c] EXCEPT !.pc = "Fail",
                  !.toolAnswer = [kind |-> "rejected", value |-> JsUndefined, error |-> ToolError, at |-> clock],
                  !.outcome = Fail(Rejection(ToolError))]]
    /\ UNCHANGED <<clock, runner, hooks, log>>

\* the catch block of runToolResultReceivedHook and the return after it
\* (lines 107-114)
AfterFailureRethrown(call, error) ==
    [call EXCEPT !.pc = "Fail", !.outcome = Fail(error),
                 !.afterAnswer = [kind |-> "threw", verdict |-> NoVerdict, error |-> error]]

AfterFailure(call, error) ==
    [call EXCEPT !.pc = "AfterDone", !.afterOutcome = Allowed(call.toolAnswer.value),
                 !.afterAnswer = [kind |-> "threw", verdict |-> NoVerdict, error |-> error]]

\* runToolResultReceived resolves with a verdict (lines 82-106, 114)
AfterHookReturnsFrom(c, verdicts) ==
    /\ calls[c].pc = "AfterHook"
    /\ \E hookResult \in verdicts :
        calls' = [calls EXCEPT ![c] =
            [calls[c] EXCEPT !.pc = "AfterDone",
                      !.afterAnswer = [kind |-> "returned", verdict |-> hookResult, error |-> NoError],
                      !.afterOutcome = AfterOutcome(calls[c].toolAnswer.value, hookResult)]]
    /\ UNCHANGED <<clock, runner, hooks, log>>

AfterHookReturns(c) == AfterHookReturnsFrom(c, AfterVerdicts)

\* runToolResultReceived throws or rejects (lines 107-114)
AfterHookThrows(c) ==
    /\ calls[c].pc = "AfterHook"
    /\ calls' = [calls EXCEPT ![c] = AfterFailure(calls[c], HandlerError)]
    /\ log' = Append(log, Warning("tool_result_received", c, HandlerError))
    /\ UNCHANGED <<clock, runner, hooks>>

\* the wrapper resumes after the after stage (lines 155-160)
SettleHangsOnBlock(c) ==
    /\ calls[c].pc = "AfterDone"
    /\ calls' = [calls EXCEPT ![c] =
        IF calls[c].afterOutcome.blocked
        THEN calls[c]
        ELSE [calls[c] EXCEPT !.pc = "Succeed", !.outcome = Succeed(calls[c].afterOutcome.value)]]
    /\ UNCHANGED <<clock, runner, hooks, log>>

Settle(c) ==
    /\ calls[c].pc = "AfterDone"
    /\ calls' = [calls EXCEPT ![c] =
        IF calls[c].afterOutcome.blocked
        THEN [calls[c] EXCEPT !.pc = "Fail", !.outcome = Fail(NewError(calls[c].afterOutcome.reason))]
        ELSE [calls[c] EXCEPT !.pc = "Succeed", !.outcome = Succeed(calls[c].afterOutcome.value)]]
    /\ UNCHANGED <<clock, runner, hooks, log>>

\* time passes
Tick ==
    /\ clock < MaxClock
    /\ clock' = clock + 1
    /\ UNCHANGED <<calls, runner, hooks, log>>

\* a plugin registers a handler for an event with the global hook runner
Register(event) ==
    /\ event \notin hooks
    /\ runner' = "present"
    /\ hooks' = hooks \cup {event}
    /\ UNCHANGED <<calls, clock, log>>

Next ==
    \/ \E c \in DOMAIN calls : Invoke(c)
    \/ \E c \in DOMAIN calls : BeforeHookReturns(c)
    \/ \E c \in DOMAIN calls : BeforeHookThrows(c)
    \/ \E c \in DOMAIN calls : CallExecute(c)
    \/ \E c \in DOMAIN calls : ExecuteResolves(c)
    \/ \E c \in DOMAIN calls : ExecuteRejects(c)
    \/ \E c \in DOMAIN calls : AfterHookReturns(c)
    \/ \E c \in DOMAIN calls : AfterHookThrows(c)
    \/ \E c \in DOMAIN calls : Settle(c)
    \/ Tick
    \/ \E event \in Events : Register(event)

Spec == Init /\ [][Next]_vars

(* ---------------- cancellation, concurrency and progress --------------- *)
\* the caller aborts the cancellation signal it passed (or is about to pass)
\* to the wrapped execute; abortedAt remembers where the call was
Abort(c) ==
    /\ calls[c].abortedAt = "never"
    /\ calls[c].pc \notin {"Succeed", "Fail"}
    /\ calls' = [calls EXCEPT ![c].abortedAt = calls[c].pc]
    /\ UNCHANGED <<clock, runner, hooks, log>>

\* a few inputs of each kind, for the specifications below
CallIds == {"call-1", "call-2"}
SmallParams == {JsMap([k \in Keys |-> IF k = "c" THEN 0 ELSE 1]), JsStr("raw-string")}
SmallExtras == {<<"signal-A", "onUpdate-A">>}
SmallBeforeVerdicts ==
    {NoVerdict,
     Verdict(JsUndefined, JsUndefined, JsMap([k \in Keys |-> IF k = "a" THEN 0 ELSE HookVal])),
     Verdict(JsTrue, JsStr("denied by policy"), JsUndefined)}
SmallAfterVerdicts ==
    {NoVerdict,
     Verdict(JsUndefined, JsUndefined, JsStr("redacted")),
     Verdict(JsTrue, JsUndefined, JsUndefined)}

\* a step of call c that the event loop, the hook runner or the tool takes
\* once the call is under way
Progress(c) ==
    /\ c \in DOMAIN calls
    /\ \/ BeforeHookReturnsFrom(c, SmallBeforeVerdicts)
       \/ BeforeHookThrows(c)
       \/ CallExecute(c)
       \/ ExecuteResolves(c)
       \/ ExecuteRejects(c)
       \/ AfterHookReturnsFrom(c, SmallAfterVerdicts)
       \/ AfterHookThrows(c)
       \/ Settle(c)

NextSmall ==
    \/ \E c \in DOMAIN calls : InvokeFrom(c, SmallParams, SmallExtras)
    \/ \E c \in DOMAIN calls : Progress(c)
    \/ \E c \in DOMAIN calls : Abort(c)
    \/ Tick
    \/ \E event \in Events : Register(event)

\* one call whose signal may be aborted at any moment
SpecCancel == Init /\ [][NextSmall]_vars

\* the same, where every hook-runner invocation and the tool's execute
\* eventually complete and the event loop resumes the wrapper
SpecLive == Init /\ [][NextSmall]_vars /\ \A c \in CallIds : WF_vars(Progress(c))

\* two invocations of the same wrapped tool, interleaved at their awaits
NextConc ==
    \/ \E c \in DOMAIN calls : InvokeFrom(c, SmallParams, SmallExtras)
    \/ \E c \in DOMAIN calls : Progress(c)
    \/ \E event \in Events : Register(event)

SpecConc == InitWith(CallIds) /\ [][NextConc]_vars

(* ------------------------ vocabulary of the properties ----------------- *)
Terminal(call) == call.pc \in {"Succeed", "Fail"}

\* the warnings logged for call c and an event
Warnings(c, event) == {i \in DOMAIN log : log[i].toolCallId = c /\ log[i].event = event}

\* the hook runner returned a verdict with block set
BlockedBy(answer) == answer.kind = "returned" /\ Truthy(Opt(answer.verdict, "block"))

\* the reason a blocking verdict carries: the supplied one, or the default
ReasonOf(verdict, default) ==
    IF verdict.blockReason \in {JsUndefined, JsStr("")} THEN default ELSE verdict.blockReason.a

\* hasHooks found no handler (or there was no runner to ask)
NoHandler(answer) == answer \in {"absent", "false"}

(* ------------------------------- C1 ----------------------------------- *)
\* C1: when no handler is registered for either event (or the runner is
\* absent), the wrapped call never invokes runBeforeToolCall or
\* runToolResultReceived, invokes the tool's execute exactly once with the
\* caller's params, call id, signal and progress callback, and ends with the
\* tool's own outcome: its result when it resolved, its error when it rejected.
PassThroughIdentity ==
    \A c \in DOMAIN calls :
        LET call == calls[c] IN
        (NoHandler(call.hasBefore) /\ (NoHandler(call.hasAfter) \/ call.hasAfter = "unasked"))
        => /\ call.beforeCalls = <<>>
           /\ call.afterCalls = <<>>
           /\ Len(call.execCalls) <= 1
           /\ call.execCalls # <<>> => call.execCalls[1].args = call.args
           /\ call.args.toolCallId = c
           /\ Terminal(call) =>
                /\ Len(call.execCalls) = 1
                /\ call.toolAnswer.kind = "resolved" => call.outcome = Succeed(call.toolAnswer.value)
                /\ call.toolAnswer.kind = "rejected" => call.outcome = Fail(call.toolAnswer.error)
                /\ call.toolAnswer.kind # "none"

PassThroughWitness ==
    \E c \in DOMAIN calls :
        /\ calls[c].pc = "Succeed"
        /\ NoHandler(calls[c].hasBefore)
        /\ NoHandler(calls[c].hasAfter)
        /\ calls[c].args.params = JsStr("raw-string")
        /\ calls[c].outcome.value \in ToolResults

(* ------------------------------- C2 ----------------------------------- *)
\* C2: when the before-hook verdict has block set, the tool's execute is
\* never invoked, the after-hook runner is never invoked, and the call ends in
\* Fail with the block reason as its error message.
BeforeBlockShortCircuit ==
    \A c \in DOMAIN calls :
        LET call == calls[c] IN
        BlockedBy(call.beforeAnswer)
        => /\ call.execCalls = <<>>
           /\ call.afterCalls = <<>>
           /\ call.hasAfter = "unasked"
           /\ call.pc \in {"BeforeDone", "Fail"}
           /\ call.pc = "Fail" =>
                call.outcome = Fail(NewError(ReasonOf(call.beforeAnswer.verdict, DefaultBeforeReason)))

BeforeBlockWitness ==
    \E c \in DOMAIN calls :
        /\ calls[c].pc = "Fail"
        /\ BlockedBy(calls[c].beforeAnswer)
        /\ calls[c].outcome.error.message = "denied by policy"

(* ------------------------------- C3 ----------------------------------- *)
\* C3: when runBeforeToolCall throws, the tool is still executed, with the
\* original params; when runToolResultReceived throws, the caller still gets
\* the tool's original result.  Neither failure reaches the caller, and each
\* is logged as exactly one warning.
HookFailureNonFatal ==
    \A c \in DOMAIN calls :
        LET call == calls[c] IN
        /\ call.beforeAnswer.kind = "threw" =>
            /\ call.pc # "BeforeDone" => Len(call.execCalls) = 1
            /\ call.execCalls # <<>> => call.execCalls[1].args = call.args
            /\ call.outcome.error # call.beforeAnswer.error
        /\ call.afterAnswer.kind = "threw" =>
            /\ call.pc \in {"AfterDone", "Succeed"}
            /\ call.pc = "Succeed" => call.outcome = Succeed(call.toolAnswer.value)
        /\ Cardinality(Warnings(c, "before_tool_call")) = (IF call.beforeAnswer.kind = "threw" THEN 1 ELSE 0)
        /\ Cardinality(Warnings(c, "tool_result_received")) = (IF call.afterAnswer.kind = "threw" THEN 1 ELSE 0)

HookFailureWitness ==
    \E c \in DOMAIN calls :
        /\ calls[c].pc = "Succeed"
        /\ calls[c].beforeAnswer.kind = "threw"
        /\ calls[c].afterAnswer.kind = "threw"
        /\ calls[c].args.params = JsNull
        /\ Len(log) = 2

(* ------------------------------- C4 ----------------------------------- *)
\* C4: when the tool resolved and the after-hook verdict has block set, the
\* call ends in Fail with the after-hook's reason, never in Succeed, and the
\* tool has been executed exactly once.
AfterBlockDiscardsResult ==
    \A c \in DOMAIN calls :
        LET call == calls[c] IN
        BlockedBy(call.afterAnswer)
        => /\ call.toolAnswer.kind = "resolved"
           /\ Len(call.execCalls) = 1
           /\ call.pc \in {"AfterDone", "Fail"}
           /\ call.outcome.status # "Succeed"
           /\ call.outcome.value = JsUndefined
           /\ call.pc = "Fail" =>
                call.outcome = Fail(NewError(ReasonOf(call.afterAnswer.verdict, DefaultAfterReason)))

AfterBlockWitness ==
    \E c \in DOMAIN calls :
        /\ calls[c].pc = "Fail"
        /\ BlockedBy(calls[c].afterAnswer)
        /\ calls[c].afterAnswer.verdict.data = JsStr("redacted")
        /\ calls[c].outcome.error.message = "denied by policy"

(* ------------------------------- C5 ----------------------------------- *)
\* C5: when the original params P are a plain mapping and a non-blocking
\* before-hook verdict supplies params R that are a plain mapping, the tool is
\* executed with the shallow merge: every key of R has R's value, every key of
\* P not in R keeps P's value, and no other key is present.
ParamsMerge ==
    \A c \in DOMAIN calls :
        LET call == calls[c]
            P == call.args.params
            R == call.beforeAnswer.verdict.data
        IN
        (/\ call.beforeAnswer.kind = "returned"
         /\ ~BlockedBy(call.beforeAnswer)
         /\ P.t = "object"
         /\ R.t = "object")
        => /\ call.pc # "BeforeDone" => Len(call.execCalls) = 1
           /\ call.execCalls # <<>> =>
                LET M == call.execCalls[1].args.params IN
                /\ M.t = "object"
                /\ \A k \in Keys :
                    /\ R.m[k] # 0 => M.m[k] = R.m[k]
                    /\ (R.m[k] = 0 /\ P.m[k] # 0) => M.m[k] = P.m[k]
                    /\ (R.m[k] = 0 /\ P.m[k] = 0) => M.m[k] = 0

\* {a:1, b:1} merged with {b:R, c:R} is executed as {a:1, b:R, c:R}
ParamsMergeWitness ==
    \E c \in DOMAIN calls :
        /\ calls[c].args.params = JsMap([k \in Keys |-> IF k = "c" THEN 0 ELSE 1])
        /\ calls[c].beforeAnswer.kind = "returned"
        /\ calls[c].beforeAnswer.verdict.data = JsMap([k \in Keys |-> IF k = "a" THEN 0 ELSE HookVal])
        /\ calls[c].execCalls # <<>>
        /\ calls[c].execCalls[1].args.params =
            JsMap([k \in Keys |-> IF k = "a" THEN 1 ELSE HookVal])

(* ------------------------------- C6 ----------------------------------- *)
\* C6: when a before-hook handler is registered and its verdict neither
\* blocks nor supplies params that are a plain mapping, the tool is executed
\* with the original params verbatim; a non-mapping original is never replaced
\* by the empty mapping that the hook payload carried.
OriginalParamsPreserved ==
    \A c \in DOMAIN calls :
        LET call == calls[c] IN
        (/\ call.hasBefore = "true"
         /\ call.beforeAnswer.kind = "returned"
         /\ ~BlockedBy(call.beforeAnswer)
         /\ Opt(call.beforeAnswer.verdict, "data").t # "object")
        => /\ call.pc # "BeforeDone" => Len(call.execCalls) = 1
           /\ call.execCalls # <<>> => call.execCalls[1].args.params = call.args.params

OriginalParamsWitness ==
    \E c \in DOMAIN calls :
        /\ calls[c].args.params = JsStr("raw-string")
        /\ calls[c].beforeCalls = <<[params |-> JsMap(EmptyMap)]>>
        /\ calls[c].beforeAnswer.kind = "returned"
        /\ calls[c].beforeAnswer.verdict.data = JsArray
        /\ calls[c].execCalls # <<>>
        /\ calls[c].execCalls[1].args.params = JsStr("raw-string")

(* ------------------------------- C7 ----------------------------------- *)
\* C7: when the after-hook verdict does not block and supplies a result other
\* than undefined (0, false, "" and null included), the call resolves with
\* that value; it resolves with the tool's own result only when the verdict is
\* absent or its result is undefined.
FalsyReplacementHonored ==
    \A c \in DOMAIN calls :
        LET call == calls[c]
            supplied == Opt(call.afterAnswer.verdict, "data")
        IN
        (call.afterAnswer.kind = "returned" /\ ~BlockedBy(call.afterAnswer))
        => /\ call.pc \in {"AfterDone", "Succeed"}
           /\ call.pc = "Succeed" =>
                /\ supplied # JsUndefined => call.outcome = Succeed(supplied)
                /\ supplied = JsUndefined => call.outcome = Succeed(call.toolAnswer.value)

FalsyReplacementWitness ==
    \E c \in DOMAIN calls :
        /\ calls[c].pc = "Succeed"
        /\ calls[c].afterAnswer.kind = "returned"
        /\ calls[c].outcome.value = JsZero
        /\ calls[c].toolAnswer.value # JsZero

(* ------------------------------- C8 ----------------------------------- *)
\* C8: the durationMs passed to the after-hook is the clock read when the
\* tool's execute resolved minus the clock read when execute was invoked; the
\* time the before-hook and the after-hook take is not part of it.
TimingExcludesHookLatency ==
    \A c \in DOMAIN calls :
        LET call == calls[c] IN
        /\ call.afterCalls # <<>> =>
            call.afterCalls[1].durationMs = call.toolAnswer.at - call.execCalls[1].at
        /\ call.toolAnswer.kind = "resolved" =>
            call.durationMs = call.toolAnswer.at - call.execCalls[1].at

\* the before-hook took time, the tool took time, the after-hook took time
TimingWitness ==
    \E c \in DOMAIN calls :
        /\ calls[c].pc = "AfterHook"
        /\ calls[c].invokedAt < calls[c].execCalls[1].at
        /\ calls[c].afterCalls[1].durationMs = 1
        /\ clock > calls[c].toolAnswer.at

(* ------------------------------- C9 ----------------------------------- *)
\* C9 as stated: when the tool's execute rejects, the call fails with that
\* same error, the after-hook runner is never invoked, execute is not
\* retried, and no warning is logged for the call.
ToolFailureNoWarningAtAll ==
    \A c \in DOMAIN calls :
        LET call == calls[c] IN
        call.toolAnswer.kind = "rejected"
        => /\ call.outcome = Fail(call.toolAnswer.error)
           /\ call.afterCalls = <<>>
           /\ Len(call.execCalls) = 1
           /\ \A i \in DOMAIN log : log[i].toolCallId # c

\* C9 as amended: when the tool's execute rejects, the call fails with that
\* same error, the after stage is never entered, execute is not retried, and
\* the rejection itself logs nothing: the only warning the call can have
\* logged is the one for a before-hook invocation that threw earlier.
ToolFailurePropagates ==
    \A c \in DOMAIN calls :
        LET call == calls[c] IN
        call.toolAnswer.kind = "rejected"
        => /\ call.pc = "Fail"
           /\ call.outcome = Fail(call.toolAnswer.error)
           /\ call.outcome.error.by = "tool"
           /\ call.afterCalls = <<>>
           /\ call.hasAfter = "unasked"
           /\ Len(call.execCalls) = 1
           /\ Warnings(c, "tool_result_received") = {}
           /\ Cardinality(Warnings(c, "before_tool_call")) =
                (IF call.beforeAnswer.kind = "threw" THEN 1 ELSE 0)
           /\ \A i \in DOMAIN log : log[i].toolCallId = c => log[i].error = HandlerError.message

ToolFailureWitness ==
    \E c \in DOMAIN calls :
        /\ calls[c].pc = "Fail"
        /\ calls[c].toolAnswer.kind = "rejected"
        /\ calls[c].beforeAnswer.kind = "returned"
        /\ calls[c].outcome.error = ToolError
        /\ log = <<>>

(* ------------------------------- C10 ---------------------------------- *)
\* C10: no failure of the hook runner, hasHooks included, reaches the caller:
\* every call that ends in Fail either received a blocking verdict or had its
\* underlying tool fail.
RunnerFailureNeverSurfaces ==
    \A c \in DOMAIN calls :
        LET call == calls[c] IN
        call.pc = "Fail"
        => \/ BlockedBy(call.beforeAnswer)
           \/ BlockedBy(call.afterAnswer)
           \/ call.toolAnswer.kind = "rejected"

(* ------------------------------- C11 ---------------------------------- *)
\* C11 as stated: a blocked call fails with the handler's blockReason whenever
\* the handler supplied one, and with the stage's fixed message when it
\* supplied none.
BlockReasonAsSupplied ==
    \A c \in DOMAIN calls :
        LET call == calls[c]
            before == call.beforeAnswer.verdict
            after == call.afterAnswer.verdict
        IN
        call.pc = "Fail" =>
            /\ BlockedBy(call.beforeAnswer) =>
                call.outcome.error.message =
                    (IF before.blockReason # JsUndefined THEN before.blockReason.a
                     ELSE "Tool call blocked by plugin hook")
            /\ BlockedBy(call.afterAnswer) =>
                call.outcome.error.message =
                    (IF after.blockReason # JsUndefined THEN after.blockReason.a
                     ELSE "Tool result blocked by plugin hook")

\* C11 as amended: a blocked call fails with the handler's blockReason when
\* that is a non-empty string; when the handler supplied none, or supplied the
\* empty string, a before-block fails with "Tool call blocked by plugin hook"
\* and an after-block with "Tool result blocked by plugin hook".
BlockReasonStrings ==
    \A c \in DOMAIN calls :
        LET call == calls[c]
            before == call.beforeAnswer.verdict
            after == call.afterAnswer.verdict
        IN
        call.pc = "Fail" =>
            /\ BlockedBy(call.beforeAnswer) =>
                call.outcome.error.message =
                    (IF before.blockReason \notin {JsUndefined, JsStr("")} THEN before.blockReason.a
                     ELSE "Tool call blocked by plugin hook")
            /\ BlockedBy(call.afterAnswer) =>
                call.outcome.error.message =
                    (IF after.blockReason \notin {JsUndefined, JsStr("")} THEN after.blockReason.a
                     ELSE "Tool result blocked by plugin hook")

BlockReasonWitness ==
    \E c \in DOMAIN calls :
        /\ calls[c].pc = "Fail"
        /\ BlockedBy(calls[c].afterAnswer)
        /\ calls[c].afterAnswer.verdict.blockReason = JsStr("")
        /\ calls[c].outcome.error.message = "Tool result blocked by plugin hook"

(* ------------------------------- C13 ---------------------------------- *)
\* the place of each position of a call in the order of the stages
StageRank(pc) ==
    CASE pc = "idle" -> 0
      [] pc = "BeforeHook" -> 1
      [] pc = "BeforeDone" -> 2
      [] pc = "Executing" -> 3
      [] pc = "AfterHook" -> 4
      [] pc = "AfterDone" -> 5
      [] OTHER -> 6

StagesInOrder ==
    \A c \in DOMAIN calls :
        LET call == calls[c] IN
        /\ Len(call.beforeCalls) <= 1
        /\ Len(call.execCalls) <= 1
        /\ Len(call.afterCalls) <= 1
        /\ call.beforeCalls # <<>> <=> (StageRank(call.pc) >= 1 /\ call.hasBefore = "true")
        /\ call.execCalls # <<>> =>
            /\ StageRank(call.pc) >= 3
            /\ ~call.beforeOutcome.blocked
            /\ call.beforeCalls # <<>> => call.beforeAnswer.kind # "none"
        /\ call.pc = "Executing" => (call.execCalls # <<>> /\ call.toolAnswer.kind = "none")
        /\ call.afterCalls # <<>> =>
            /\ StageRank(call.pc) >= 4
            /\ call.toolAnswer.kind = "resolved"
        /\ StageRank(call.pc) >= 4 /\ call.pc # "Fail" => call.toolAnswer.kind = "resolved"

StageStep ==
    \A c \in DOMAIN calls :
        /\ StageRank(calls'[c].pc) >= StageRank(calls[c].pc)
        /\ calls'[c].pc # calls[c].pc => StageRank(calls'[c].pc) > StageRank(calls[c].pc)
        /\ Len(calls'[c].execCalls) > Len(calls[c].execCalls) =>
            (calls[c].pc = "BeforeDone" /\ ~calls[c].beforeOutcome.blocked)
        /\ Len(calls'[c].afterCalls) > Len(calls[c].afterCalls) => calls[c].pc = "Executing"
        /\ Len(calls'[c].beforeCalls) > Len(calls[c].beforeCalls) => calls[c].pc = "idle"

\* C13: within one call the stages occur only in the order Start, BeforeHook,
\* Executing, AfterHook, terminal; execute is invoked only once the before
\* stage has completed with an Allowed outcome, the after-hook only once
\* execute has resolved, and runBeforeToolCall, execute and
\* runToolResultReceived are each invoked at most once.
StrictStageOrdering == []StagesInOrder /\ [][StageStep]_vars

StageOrderingWitness ==
    \E c \in DOMAIN calls :
        /\ calls[c].pc = "Succeed"
        /\ Len(calls[c].beforeCalls) = 1
        /\ Len(calls[c].execCalls) = 1
        /\ Len(calls[c].afterCalls) = 1

(* ------------------------------- C14 ---------------------------------- *)
\* C14: whenever runToolResultReceived is invoked, the params of its payload
\* are the value execute was called with (merged or replaced when the
\* before-hook rewrote them, the original otherwise) and its result is the
\* value execute resolved with.
AfterHookSeesExecuted ==
    \A c \in DOMAIN calls :
        LET call == calls[c] IN
        call.afterCalls # <<>> =>
            /\ call.hasAfter = "true"
            /\ call.afterCalls[1].params = call.execCalls[1].args.params
            /\ call.afterCalls[1].result = call.toolAnswer.value
            /\ call.toolAnswer.value \in ToolResults

AfterHookSeesWitness ==
    \E c \in DOMAIN calls :
        /\ calls[c].afterCalls # <<>>
        /\ calls[c].args.params = JsMap([k \in Keys |-> IF k = "c" THEN 0 ELSE 1])
        /\ calls[c].afterCalls[1].params = JsMap([k \in Keys |-> IF k = "a" THEN 1 ELSE HookVal])

(* ------------------------------- C15 ---------------------------------- *)
\* C15: the params in every runBeforeToolCall payload are a plain mapping:
\* the caller's params when those are a plain mapping, the empty mapping for
\* every other shape.
BeforePayloadIsMapping ==
    \A c \in DOMAIN calls :
        LET call == calls[c] IN
        \A i \in DOMAIN call.beforeCalls :
            /\ call.beforeCalls[i].params.t = "object"
            /\ call.args.params.t = "object" => call.beforeCalls[i].params = call.args.params
            /\ call.args.params.t # "object" => call.beforeCalls[i].params = JsMap([k \in Keys |-> 0])

BeforePayloadWitness ==
    \E c \in DOMAIN calls :
        /\ calls[c].args.params = JsArray
        /\ calls[c].beforeCalls # <<>>
        /\ calls[c].beforeCalls[1].params = JsMap([k \in Keys |-> 0])

(* ------------------------------- C16 ---------------------------------- *)
\* C16: when the original params are not a plain mapping and a non-blocking
\* before-hook verdict supplies params R that are a plain mapping, the tool is
\* executed with exactly R.
WholesaleReplacement ==
    \A c \in DOMAIN calls :
        LET call == calls[c]
            R == call.beforeAnswer.verdict.data
        IN
        (/\ call.beforeAnswer.kind = "returned"
         /\ ~BlockedBy(call.beforeAnswer)
         /\ call.args.params.t # "object"
         /\ R.t = "object")
        => /\ call.pc # "BeforeDone" => Len(call.execCalls) = 1
           /\ call.execCalls # <<>> => call.execCalls[1].args.params = R

WholesaleReplacementWitness ==
    \E c \in DOMAIN calls :
        /\ calls[c].args.params = JsStr("raw-string")
        /\ calls[c].beforeAnswer.kind = "returned"
        /\ calls[c].execCalls # <<>>
        /\ calls[c].execCalls[1].args.params = JsMap([k \in Keys |-> IF k = "a" THEN 0 ELSE HookVal])

(* ------------------------------- C17 ---------------------------------- *)
\* C17: a verdict that blocks and also supplies replacement data is a block.
\* Before the tool: the replacement params are ignored and the tool is not
\* executed.  After the tool: runToolResultReceivedHook answers blocked with
\* the tool's original result, not the replacement, and the call fails.
BlockBeatsReplacement ==
    \A c \in DOMAIN calls :
        LET call == calls[c] IN
        /\ (BlockedBy(call.beforeAnswer) /\ call.beforeAnswer.verdict.data # JsUndefined) =>
            /\ call.beforeOutcome.blocked
            /\ call.execCalls = <<>>
            /\ call.pc \in {"BeforeDone", "Fail"}
            /\ call.outcome.status # "Succeed"
        /\ (BlockedBy(call.afterAnswer) /\ call.afterAnswer.verdict.data # JsUndefined) =>
            /\ call.afterOutcome.blocked
            /\ call.afterOutcome.value = call.toolAnswer.value
            /\ call.afterOutcome.value # call.afterAnswer.verdict.data
            /\ call.pc \in {"AfterDone", "Fail"}
            /\ call.outcome.status # "Succeed"

BlockBeatsReplacementWitness ==
    \E c \in DOMAIN calls :
        /\ calls[c].pc = "Fail"
        /\ BlockedBy(calls[c].afterAnswer)
        /\ calls[c].afterAnswer.verdict.data = JsStr("redacted")
        /\ calls[c].afterOutcome.value = JsStr("tool output")
        /\ calls[c].beforeAnswer.kind = "returned"
        /\ calls[c].beforeAnswer.verdict.data.t = "object"

(* ------------------------------- C20 ---------------------------------- *)
\* what hasHooks answers for an event in the current state of the registry
Registered(event) ==
    IF runner = "absent" THEN "absent" ELSE IF event \in hooks THEN "true" ELSE "false"

ConsultedAtStage ==
    \A c \in DOMAIN calls :
        /\ (calls[c].hasBefore = "unasked" /\ calls'[c].hasBefore # "unasked") =>
            /\ calls[c].pc = "idle"
            /\ calls'[c].hasBefore \in {Registered("before_tool_call"), "threw"}
            /\ calls'[c].beforeCalls # <<>> <=> calls'[c].hasBefore = "true"
        /\ (calls[c].hasAfter = "unasked" /\ calls'[c].hasAfter # "unasked") =>
            /\ calls[c].pc = "Executing"
            /\ calls'[c].hasAfter \in {Registered("tool_result_received"), "threw"}
            /\ calls'[c].afterCalls # <<>> <=> calls'[c].hasAfter = "true"
        /\ calls[c].hasBefore # "unasked" =>
            (calls'[c].hasBefore = calls[c].hasBefore /\ calls'[c].beforeCalls = calls[c].beforeCalls)
        /\ calls[c].hasAfter # "unasked" =>
            (calls'[c].hasAfter = calls[c].hasAfter /\ calls'[c].afterCalls = calls[c].afterCalls)
        /\ calls'[c].hasAfter = "unasked" => calls'[c].afterCalls = <<>>
        /\ calls'[c].hasBefore = "unasked" => calls'[c].beforeCalls = <<>>

\* C20: hasHooks is evaluated on the registry as it is when the before stage
\* starts and again when the after stage starts, each for its own event; a
\* runner method is invoked only if hasHooks answered true for its event at
\* that stage, so a handler registered after wrapping, or while the tool is
\* executing, is run by the stage that starts afterwards.
RegistrationConsultedPerStage == [][ConsultedAtStage]_vars

\* the before stage was a pass-through, the handler registered meanwhile runs
RegistrationWitness ==
    \E c \in DOMAIN calls :
        /\ calls[c].hasBefore \in {"absent", "false"}
        /\ calls[c].beforeCalls = <<>>
        /\ calls[c].hasAfter = "true"
        /\ calls[c].afterCalls # <<>>

(* ------------------------------- C18 ---------------------------------- *)
\* C18: the signal and the progress callback reach the underlying execute
\* unmodified, and an aborted signal changes nothing in the pipeline: the
\* before-hook still runs to completion, execute is still invoked unless a
\* verdict blocked, the after-hook still runs once execute resolved, and
\* the call never fails because of the abort.
CancellationOnlyForwarded ==
    \A c \in DOMAIN calls :
        LET call == calls[c] IN
        /\ call.execCalls # <<>> =>
            /\ call.execCalls[1].args.signal = call.args.signal
            /\ call.execCalls[1].args.onUpdate = call.args.onUpdate
        /\ call.abortedAt # "never" =>
            /\ (call.pc # "idle" /\ call.hasBefore = "true") => call.beforeCalls # <<>>
            /\ call.pc \in {"Executing", "AfterHook", "AfterDone", "Succeed"} => Len(call.execCalls) = 1
            /\ (call.pc = "Fail" /\ call.execCalls = <<>>) =>
                (BlockedBy(call.beforeAnswer) \/ call.hasBefore = "threw")
            /\ call.toolAnswer.kind = "resolved" => call.hasAfter # "unasked"
            /\ call.hasAfter = "true" => call.afterCalls # <<>>
            /\ call.pc = "Fail" =>
                \/ BlockedBy(call.beforeAnswer)
                \/ BlockedBy(call.afterAnswer)
                \/ call.toolAnswer.kind = "rejected"
                \/ call.hasBefore = "threw"
                \/ call.hasAfter = "threw"

\* the signal was already aborted when the call started, and all three
\* stages ran
CancellationWitness ==
    \E c \in DOMAIN calls :
        /\ calls[c].abortedAt = "idle"
        /\ calls[c].pc = "Succeed"
        /\ calls[c].beforeAnswer.kind = "returned"
        /\ calls[c].execCalls # <<>>
        /\ calls[c].execCalls[1].args.signal = "signal-A"
        /\ calls[c].afterAnswer.kind = "returned"

(* ------------------------------- C19 ---------------------------------- *)
\* a call is in Fail with an error and no value, in Succeed with a value and
\* no error, or in neither
OneTerminalState ==
    \A c \in DOMAIN calls :
        LET call == calls[c] IN
        /\ call.pc = "Fail" <=> call.outcome.status = "Fail"
        /\ call.pc = "Succeed" <=> call.outcome.status = "Succeed"
        /\ call.outcome.status = "Fail" => (call.outcome.error # NoError /\ call.outcome.value = JsUndefined)
        /\ call.outcome.status = "Succeed" => call.outcome.error = NoError
        /\ call.outcome.status = "pending" => call.outcome = Pending

TerminalStays ==
    \A c \in DOMAIN calls :
        Terminal(calls[c]) => (calls'[c].pc = calls[c].pc /\ calls'[c].outcome = calls[c].outcome)

\* C19: provided every hook-runner invocation and the underlying execute
\* eventually complete, every wrapped call that was started eventually
\* reaches a terminal state; it is in exactly one of Fail and Succeed, and
\* never leaves it.
TerminatesInOneState ==
    /\ \A c \in CallIds :
        (c \in DOMAIN calls /\ calls[c].pc # "idle") ~> (c \in DOMAIN calls /\ Terminal(calls[c]))
    /\ []OneTerminalState
    /\ [][TerminalStays]_vars

TerminationWitness ==
    \E c \in DOMAIN calls :
        /\ calls[c].pc = "Succeed"
        /\ calls[c].outcome = Succeed(JsStr("redacted"))
        /\ calls[c].beforeAnswer.kind = "threw"

(* ------------------------------- C12 ---------------------------------- *)
\* what the before stage of a call yields, given only that call's own params
\* and the answers the hook runner gave for that call
OwnBeforeOutcome(call) ==
    IF call.hasBefore = "true" /\ call.beforeAnswer.kind = "returned"
    THEN BeforeOutcome(call.args.params, call.beforeAnswer.verdict)
    ELSE Allowed(call.args.params)

\* what the after stage of a call yields, given only that call's own tool
\* result and the answers the hook runner gave for that call
OwnAfterOutcome(call) ==
    IF call.hasAfter = "true" /\ call.afterAnswer.kind = "returned"
    THEN AfterOutcome(call.toolAnswer.value, call.afterAnswer.verdict)
    ELSE Allowed(call.toolAnswer.value)

EachCallOnItsOwn ==
    \A c \in DOMAIN calls :
        LET call == calls[c] IN
        /\ call.execCalls # <<>> =>
            /\ call.execCalls[1].args.toolCallId = c
            /\ call.execCalls[1].args.params = OwnBeforeOutcome(call).value
            /\ ~OwnBeforeOutcome(call).blocked
        /\ call.afterCalls # <<>> => call.afterCalls[1].params = OwnBeforeOutcome(call).value
        /\ call.pc = "Succeed" =>
            /\ ~OwnAfterOutcome(call).blocked
            /\ call.outcome = Succeed(OwnAfterOutcome(call).value)
        /\ call.pc = "Fail" =>
            \/ call.hasBefore = "threw" /\ call.outcome = Fail(RunnerError)
            \/ OwnBeforeOutcome(call).blocked /\ call.beforeAnswer.kind = "returned"
                /\ call.outcome = Fail(NewError(OwnBeforeOutcome(call).reason))
            \/ call.toolAnswer.kind = "rejected" /\ call.outcome = Fail(call.toolAnswer.error)
            \/ call.hasAfter = "threw" /\ call.outcome = Fail(RunnerError)
            \/ OwnAfterOutcome(call).blocked /\ call.afterAnswer.kind = "returned"
                /\ call.outcome = Fail(NewError(OwnAfterOutcome(call).reason))
        /\ Cardinality(Warnings(c, "before_tool_call")) = (IF call.beforeAnswer.kind = "threw" THEN 1 ELSE 0)
        /\ Cardinality(Warnings(c, "tool_result_received")) = (IF call.afterAnswer.kind = "threw" THEN 1 ELSE 0)

\* a step of one call leaves the other call as it was
OneCallPerStep ==
    \A c \in DOMAIN calls : \A d \in DOMAIN calls :
        (c # d /\ calls'[c] # calls[c]) => calls'[d] = calls[d]

\* C12: two interleaved invocations with different call ids share no state:
\* every step changes one call only, and what a call gives the tool, how it
\* ends and with which result or error message follow from its own params,
\* the verdicts returned for it and its own tool result, as if it ran alone;
\* a block or hook failure in one call never blocks, fails or alters the other.
ConcurrentCallsIndependent == []EachCallOnItsOwn /\ [][OneCallPerStep]_vars

\* one call was blocked, the other went through with rewritten params and a
\* failing after-hook
ConcurrentCallsWitness ==
    /\ DOMAIN calls = CallIds
    /\ calls["call-1"].pc = "Fail"
    /\ BlockedBy(calls["call-1"].beforeAnswer)
    /\ calls["call-2"].pc = "Succeed"
    /\ calls["call-2"].execCalls[1].args.params = JsMap([k \in Keys |-> IF k = "a" THEN 1 ELSE HookVal])
    /\ calls["call-2"].afterAnswer.kind = "threw"
    /\ calls["call-2"].outcome = Succeed(JsStr("tool output"))

====
